---- MODULE Spec2Model ----
(***************************************************************************)
(* ClientConnect (openvpn/client/cliconnect.hpp): the top-level connection *)
(* logic of an OpenVPN client -- start, stop, pause, resume, reconnect,    *)
(* the three timers, the io_service handler queue and the classification   *)
(* of session terminations.                                                *)
(*                                                                         *)
(* The object's fields are the variables.  Every method is an operator on  *)
(* a record holding those fields (St), so that a method calling another    *)
(* method is operator composition; an action applies one entry point to    *)
(* the current record and commits the result.                              *)
(***************************************************************************)
EXTENDS Integers, Sequences, FiniteSets

\* ---------------------------------------------------------------- bounds
MaxGen == 2               \* attempts (values of generation) explored
MaxQueue == 2             \* handlers queued in the io_service at once
MaxOrphans == 1           \* outstanding resolutions no longer referenced
ConnTimeoutCfg == 2       \* the positive value of conn_timeout explored
ServerPollCfg == 1        \* server_poll_timeout(), in time units
MaxSeconds == 0           \* largest argument given to reconnect()

\* ------------------------------------------------------ program constants
RestartDelay == 2         \* queue_restart: const unsigned int delay = 2

VARIABLES
  generation, halt, paused, dont_restart_, conn_timer_pending,   \* fields
  client, pre_resolve, asio_work,
  server_poll_timer, restart_wait_timer, conn_timer,
  queue,                  \* io_service: handlers ready to run, FIFO
  orphans,                \* resolutions started by a replaced PreResolve
  unhandled,              \* an exception escaped a handler
  conn_timeout, pause_on_connection_timeout, server_poll_timeout_enabled,
  out,                    \* events, stats and session calls of the last step
  last,                   \* the entry point the last step ran
  posted,                 \* history: thread-safe calls posted, not yet run
  since_first,            \* history: time since the first attempt (capped)
  watch,                  \* history: what has disturbed the timeout watch
  ever_paused,            \* history: pause() took effect under the watch
  n_timeout,              \* history: ConnectionTimeout events under the watch
  pr_state, pr_attempts, pr_reconnecting  \* history: pause/resume window

fields == <<generation, halt, paused, dont_restart_, conn_timer_pending,
            client, pre_resolve, asio_work, server_poll_timer,
            restart_wait_timer, conn_timer, queue, orphans, unhandled>>
config == <<conn_timeout, pause_on_connection_timeout, server_poll_timeout_enabled>>
history == <<posted, since_first, watch, ever_paused, n_timeout,
             pr_state, pr_attempts, pr_reconnecting>>
vars == <<fields, config, out, last, history>>

\* ------------------------------------------------------------ data shapes
NoClient == [null |-> TRUE, running |-> FALSE,
             first_packet |-> FALSE, connected |-> FALSE]
NewSession == [null |-> FALSE, running |-> FALSE,
               first_packet |-> FALSE, connected |-> FALSE]
Idle == [armed |-> FALSE, gen |-> 0, left |-> 0]
Timers == {"server_poll_timer", "restart_wait_timer", "conn_timer"}
Handler(k, g, err, a) == [kind |-> k, gen |-> g, e |-> err, arg |-> a]
PostKinds == {"graceful_stop", "pause", "resume", "reconnect"}
TimerKinds == {"server_poll_callback", "restart_wait_callback", "conn_timer_callback"}

Callback(t) ==
  CASE t = "server_poll_timer" -> "server_poll_callback"
    [] t = "restart_wait_timer" -> "restart_wait_callback"
    [] t = "conn_timer" -> "conn_timer_callback"

\* Error::Type values the session reports through fatal(); OTHER stands for
\* any value client_proto_terminate has no case for.
Retryable == {"UNDEF", "CLIENT_RESTART"}
Terminal == {"AUTH_FAILED", "TUN_SETUP_FAILED", "TUN_IFACE_CREATE",
             "TUN_IFACE_DISABLED", "PROXY_ERROR", "PROXY_NEED_CREDS",
             "CERT_VERIFY_FAIL", "TLS_VERSION_MIN", "CLIENT_HALT",
             "INACTIVE_TIMEOUT"}
Fatal == Retryable \cup Terminal \cup {"OTHER"}

\* The record of the object's fields, with the output of the step so far.
St == [generation |-> generation, halt |-> halt, paused |-> paused,
       dont_restart_ |-> dont_restart_, conn_timer_pending |-> conn_timer_pending,
       client |-> client, pre_resolve |-> pre_resolve, asio_work |-> asio_work,
       server_poll_timer |-> server_poll_timer,
       restart_wait_timer |-> restart_wait_timer, conn_timer |-> conn_timer,
       queue |-> queue, orphans |-> orphans,
       unhandled |-> unhandled, out |-> <<>>]

\* ------------------------------------------------------- collaborators
add_event(s, ev) == [s EXCEPT !.out = Append(@, <<"event", ev>>)]
error(s, st) == [s EXCEPT !.out = Append(@, <<"stat", st>>)]

\* client->send_explicit_exit_notify()
send_explicit_exit_notify(s) ==
  [s EXCEPT !.out = Append(@, <<"client", "send_explicit_exit_notify">>)]

\* client->stop(false)
client_stop(s) ==
  [s EXCEPT !.client.running = FALSE, !.out = Append(@, <<"client", "stop">>)]

\* client->start()
client_start(s) ==
  [s EXCEPT !.client.running = TRUE, !.out = Append(@, <<"client", "start">>)]

\* client_options->next(): rotate to the next remote
next(s) == [s EXCEPT !.out = Append(@, <<"options", "next">>)]

\* AsioTimer::cancel(): a wait still outstanding completes with
\* operation_aborted (its handler is queued with e set); a handler already
\* queued is out of reach.
timer_cancel(s, t) ==
  IF s[t].armed
    THEN [s EXCEPT ![t] = Idle,
                   !.queue = Append(@, Handler(Callback(t), s[t].gen, TRUE, 0))]
    ELSE s

\* AsioTimer::expires_at() followed by async_wait(): setting the expiry
\* cancels the outstanding wait, then the new wait is registered.
timer_wait(s, t, delay, gen) ==
  [timer_cancel(s, t) EXCEPT ![t] = [armed |-> TRUE, gen |-> gen, left |-> delay]]

\* pre_resolve->cancel()
pre_resolve_cancel(s) ==
  IF s.pre_resolve = "pending" THEN [s EXCEPT !.pre_resolve = "cancelled"] ELSE s

\* --------------------------------------------------------------- methods
cancel_timers(s) ==
  LET a == timer_cancel(s, "restart_wait_timer")
      b == timer_cancel(a, "server_poll_timer")
      c == timer_cancel(b, "conn_timer")
  IN [c EXCEPT !.conn_timer_pending = FALSE]

\* conn_timer_start without the test of conn_timer_pending
conn_timer_start_always(s) ==
  IF conn_timeout > 0
    THEN [timer_wait(s, "conn_timer", conn_timeout, s.generation)
            EXCEPT !.conn_timer_pending = TRUE]
    ELSE s

conn_timer_start(s) ==
  IF ~s.conn_timer_pending /\ conn_timeout > 0
    THEN [timer_wait(s, "conn_timer", conn_timeout, s.generation)
            EXCEPT !.conn_timer_pending = TRUE]
    ELSE s

\* new_client rotating the remote list whatever the last session reached
new_client_always_next(s) ==
  LET s1 == [s EXCEPT !.generation = @ + 1, !.asio_work = FALSE]
      s2 == IF ~s1.client.null THEN client_stop(s1) ELSE s1
      s3 == IF s2.generation > 1
              THEN next(error(add_event(s2, "Reconnecting"), "N_RECONNECT"))
              ELSE s2
      s4 == [s3 EXCEPT !.client = NewSession]
      s5 == timer_cancel(s4, "restart_wait_timer")
      s6 == IF server_poll_timeout_enabled
              THEN timer_wait(s5, "server_poll_timer", ServerPollCfg, s5.generation)
              ELSE s5
      s7 == conn_timer_start(s6)
  IN client_start(s7)

\* new_client replacing the session without stopping the one it replaces
new_client_no_stop(s) ==
  LET s1 == [s EXCEPT !.generation = @ + 1, !.asio_work = FALSE]
      s3 == IF s1.generation > 1
              THEN LET r == error(add_event(s1, "Reconnecting"), "N_RECONNECT")
                   IN IF ~(~r.client.null /\ r.client.connected) THEN next(r) ELSE r
              ELSE s1
      s4 == [s3 EXCEPT !.client = NewSession]
      s5 == timer_cancel(s4, "restart_wait_timer")
      s6 == IF server_poll_timeout_enabled
              THEN timer_wait(s5, "server_poll_timer", ServerPollCfg, s5.generation)
              ELSE s5
      s7 == conn_timer_start(s6)
  IN client_start(s7)

new_client(s) ==
  LET s1 == [s EXCEPT !.generation = @ + 1, !.asio_work = FALSE]
      s2 == IF ~s1.client.null THEN client_stop(s1) ELSE s1
      s3 == IF s2.generation > 1
              THEN LET r == error(add_event(s2, "Reconnecting"), "N_RECONNECT")
                   IN IF ~(~r.client.null /\ r.client.connected) THEN next(r) ELSE r
              ELSE s2
      s4 == [s3 EXCEPT !.client = NewSession]
      s5 == timer_cancel(s4, "restart_wait_timer")
      s6 == IF server_poll_timeout_enabled
              THEN timer_wait(s5, "server_poll_timer", ServerPollCfg, s5.generation)
              ELSE s5
      s7 == conn_timer_start(s6)
  IN client_start(s7)

\* stop without the test of halt
stop_no_halt_test(s) ==
  LET s1 == [s EXCEPT !.halt = TRUE]
      s2 == IF s1.pre_resolve # "null" THEN pre_resolve_cancel(s1) ELSE s1
      s3 == IF ~s2.client.null THEN client_stop(s2) ELSE s2
      s4 == cancel_timers(s3)
      s5 == [s4 EXCEPT !.asio_work = FALSE,
                       !.out = Append(@, <<"options", "close_persistent">>)]
  IN add_event(s5, "Disconnected")

stop(s) ==
  IF ~s.halt
    THEN LET s1 == [s EXCEPT !.halt = TRUE]
             s2 == IF s1.pre_resolve # "null" THEN pre_resolve_cancel(s1) ELSE s1
             s3 == IF ~s2.client.null THEN client_stop(s2) ELSE s2
             s4 == cancel_timers(s3)
             s5 == [s4 EXCEPT !.asio_work = FALSE,
                              !.out = Append(@, <<"options", "close_persistent">>)]
         IN add_event(s5, "Disconnected")
    ELSE s

graceful_stop(s) ==
  stop(IF ~s.halt /\ ~s.client.null THEN send_explicit_exit_notify(s) ELSE s)

\* start(); work is preres->work_available()
start(s, work) ==
  IF s.client.null /\ ~s.halt
    THEN IF work
           THEN LET s1 == add_event(s, "Resolve")
                IN [s1 EXCEPT !.orphans = IF s.pre_resolve = "pending" THEN @ + 1 ELSE @,
                              !.pre_resolve = "pending"]
           ELSE new_client(s)
    ELSE s

pause(s) ==
  IF ~s.halt /\ ~s.paused
    THEN LET s1 == [s EXCEPT !.paused = TRUE]
             s2 == IF ~s1.client.null
                     THEN client_stop(send_explicit_exit_notify(s1))
                     ELSE s1
             s3 == cancel_timers(s2)
             s4 == [s3 EXCEPT !.asio_work = TRUE]
         IN error(add_event(s4, "Pause"), "N_PAUSE")
    ELSE s

resume(s) ==
  IF ~s.halt /\ s.paused
    THEN new_client(add_event([s EXCEPT !.paused = FALSE], "Resume"))
    ELSE s

reconnect(s, seconds) ==
  IF ~s.halt
    THEN LET secs == IF seconds < 0 THEN 0 ELSE seconds
         IN timer_wait(timer_cancel(s, "server_poll_timer"),
                       "restart_wait_timer", secs, s.generation)
    ELSE s

dont_restart(s) == [s EXCEPT !.dont_restart_ = TRUE]

pre_resolve_done(s) == IF ~s.halt THEN new_client(s) ELSE s

\* restart_wait_callback without the test of halt
restart_wait_callback_no_halt_test(s, gen, e) ==
  IF ~e /\ gen = s.generation
    THEN IF s.paused
           THEN resume(s)
           ELSE new_client(IF ~s.client.null THEN send_explicit_exit_notify(s) ELSE s)
    ELSE s

\* restart_wait_callback without the test of the generation
restart_wait_callback_no_gen_test(s, gen, e) ==
  IF ~e /\ ~s.halt
    THEN IF s.paused
           THEN resume(s)
           ELSE new_client(IF ~s.client.null THEN send_explicit_exit_notify(s) ELSE s)
    ELSE s

restart_wait_callback(s, gen, e) ==
  IF ~e /\ gen = s.generation /\ ~s.halt
    THEN IF s.paused
           THEN resume(s)
           ELSE new_client(IF ~s.client.null THEN send_explicit_exit_notify(s) ELSE s)
    ELSE s

\* server_poll_callback without the test of first_packet_received()
server_poll_callback_no_packet_test(s, gen, e) ==
  IF ~e /\ gen = s.generation /\ ~s.halt
    THEN IF s.client.null THEN [s EXCEPT !.unhandled = TRUE] ELSE new_client(s)
    ELSE s

\* client->first_packet_received() through a null client is a crash
server_poll_callback(s, gen, e) ==
  IF ~e /\ gen = s.generation /\ ~s.halt
    THEN IF s.client.null
           THEN [s EXCEPT !.unhandled = TRUE]
           ELSE IF ~s.client.first_packet THEN new_client(s) ELSE s
    ELSE s

conn_timer_callback(s, gen, e) ==
  IF ~e /\ ~s.halt
    THEN LET s1 == error(s, "CONNECTION_TIMEOUT")
         IN IF ~s1.paused /\ pause_on_connection_timeout
              THEN pause(s1)
              ELSE stop(add_event(s1, "ConnectionTimeout"))
    ELSE s

client_proto_connected(s) ==
  [timer_cancel(s, "conn_timer") EXCEPT !.conn_timer_pending = FALSE]

\* queue_restart taking the termination for a final one
queue_restart_gives_up(s) == stop(s)

\* queue_restart cancelling the server poll but arming no restart wait
queue_restart_no_wait(s) == timer_cancel(s, "server_poll_timer")

queue_restart(s) ==
  timer_wait(timer_cancel(s, "server_poll_timer"),
             "restart_wait_timer", RestartDelay, s.generation)

\* The switch on client->fatal(); dynamic is
\* ChallengeResponse::is_dynamic(client->fatal_reason()).
fatal_switch(s, fatal, dynamic) ==
                CASE fatal = "UNDEF" -> queue_restart(s)
                  [] fatal = "AUTH_FAILED" ->
                       IF dynamic
                         THEN stop(add_event(s, "DynamicChallenge"))
                         ELSE stop(error(add_event(s, "AuthFailed"), "AUTH_FAILED"))
                  [] fatal = "TUN_SETUP_FAILED" ->
                       stop(error(add_event(s, "TunSetupFailed"), "TUN_SETUP_FAILED"))
                  [] fatal = "TUN_IFACE_CREATE" ->
                       stop(error(add_event(s, "TunIfaceCreate"), "TUN_IFACE_CREATE"))
                  [] fatal = "TUN_IFACE_DISABLED" ->
                       stop(error(add_event(s, "TunIfaceDisabled"), "TUN_IFACE_DISABLED"))
                  [] fatal = "PROXY_ERROR" ->
                       stop(error(add_event(s, "ProxyError"), "PROXY_ERROR"))
                  [] fatal = "PROXY_NEED_CREDS" ->
                       stop(error(add_event(s, "ProxyNeedCreds"), "PROXY_NEED_CREDS"))
                  [] fatal = "CERT_VERIFY_FAIL" ->
                       stop(error(add_event(s, "CertVerifyFail"), "CERT_VERIFY_FAIL"))
                  [] fatal = "TLS_VERSION_MIN" ->
                       stop(error(add_event(s, "TLSVersionMinFail"), "TLS_VERSION_MIN"))
                  [] fatal = "CLIENT_HALT" ->
                       stop(error(add_event(s, "ClientHalt"), "CLIENT_HALT"))
                  [] fatal = "CLIENT_RESTART" ->
                       queue_restart(error(add_event(s, "ClientRestart"), "CLIENT_RESTART"))
                  [] fatal = "INACTIVE_TIMEOUT" ->
                       stop(error(add_event(s, "InactiveTimeout"), "INACTIVE_TIMEOUT"))
                  [] OTHER -> [s EXCEPT !.unhandled = TRUE]

\* client_proto_terminate without the test of dont_restart_
client_proto_terminate_no_sticky(s, fatal, dynamic) ==
  IF ~s.halt THEN fatal_switch(s, fatal, dynamic) ELSE s

\* client_proto_terminate with one fatal case stopping without its event
client_proto_terminate_silent_case(s, fatal, dynamic) ==
  IF ~s.halt
    THEN IF s.dont_restart_ \/ fatal = "TLS_VERSION_MIN"
           THEN stop(s)
           ELSE fatal_switch(s, fatal, dynamic)
    ELSE s

\* client_proto_terminate taking no reason for a dynamic challenge
client_proto_terminate_never_dynamic(s, fatal, dynamic) ==
  IF ~s.halt
    THEN IF s.dont_restart_ THEN stop(s) ELSE fatal_switch(s, fatal, FALSE)
    ELSE s

client_proto_terminate(s, fatal, dynamic) ==
  IF ~s.halt
    THEN IF s.dont_restart_ THEN stop(s) ELSE fatal_switch(s, fatal, dynamic)
    ELSE s

\* ------------------------------------------------- thread-safe methods
\* post putting the handler in front of those waiting
post_front(s, h) == [s EXCEPT !.queue = <<h>> \o @]

\* io_service.post(): the handler joins the back of the handler queue
post(s, h) == [s EXCEPT !.queue = Append(@, h)]

\* The thread-safe methods run on another thread: seen_halt is the value
\* that thread reads from halt, which the connection thread may be writing
\* (the field is a plain bool).
thread_safe_stop(s, seen_halt) ==
  IF ~seen_halt THEN post(s, Handler("graceful_stop", 0, FALSE, 0)) ELSE s

thread_safe_pause(s, seen_halt) ==
  IF ~seen_halt THEN post(s, Handler("pause", 0, FALSE, 0)) ELSE s

thread_safe_resume(s, seen_halt) ==
  IF ~seen_halt THEN post(s, Handler("resume", 0, FALSE, 0)) ELSE s

thread_safe_reconnect(s, seen_halt, seconds) ==
  IF ~seen_halt THEN post(s, Handler("reconnect", 0, FALSE, seconds)) ELSE s

\* asio_dispatch_post / asio_dispatch_post_arg: the method a posted handler runs
run_posted(s, h) ==
  CASE h.kind = "graceful_stop" -> graceful_stop(s)
    [] h.kind = "pause" -> pause(s)
    [] h.kind = "resume" -> resume(s)
    [] h.kind = "reconnect" -> reconnect(s, h.arg)

\* ------------------------------------------------------------ bookkeeping
Min(a, b) == IF a < b THEN a ELSE b
CountIn(seq, item) == Cardinality({i \in DOMAIN seq : seq[i] = item})
TerminalEvents == {"DynamicChallenge", "AuthFailed", "TunSetupFailed",
                   "TunIfaceCreate", "TunIfaceDisabled", "ProxyError",
                   "ProxyNeedCreds", "CertVerifyFail", "TLSVersionMinFail",
                   "ClientHalt", "InactiveTimeout"}
Events(seq) == {seq[i][2] : i \in {j \in DOMAIN seq : seq[j][1] = "event"}}

\* The label of a step that ran a callback or a posted handler: the entry
\* point; for a timer callback, whether its generation was no longer the
\* current one; for a termination, what the session reported (fatal(), and
\* whether fatal_reason() is a dynamic challenge).  Calls made
\* on the connection thread, callbacks that came with an error and the
\* environment's own steps all carry the label "step".
Op(name, via) ==
  [op |-> IF via \in {"call", "timer"} THEN "step" ELSE name, stale |-> FALSE,
   fatal |-> "", dynamic |-> FALSE]

\* The step's result s becomes the next state; op names the entry point run
\* and p is the record of posted calls after the step.
Commit(s, op, p) ==
  /\ ~unhandled
  /\ s.generation <= MaxGen
  /\ Len(s.queue) <= MaxQueue
  /\ s.orphans <= MaxOrphans
  /\ generation' = s.generation
  /\ halt' = s.halt
  /\ paused' = s.paused
  /\ dont_restart_' = s.dont_restart_
  /\ conn_timer_pending' = s.conn_timer_pending
  /\ client' = s.client
  /\ pre_resolve' = s.pre_resolve
  /\ asio_work' = s.asio_work
  /\ server_poll_timer' = s.server_poll_timer
  /\ restart_wait_timer' = s.restart_wait_timer
  /\ conn_timer' = s.conn_timer
  /\ queue' = s.queue
  /\ orphans' = s.orphans
  /\ unhandled' = s.unhandled
  /\ out' = s.out
  /\ last' = op
  /\ posted' = p
  /\ watch' = CASE watch # "clean" -> watch
                 [] op.op = "client_proto_connected" -> "connected"
                 [] s.halt /\ ~halt /\ "ConnectionTimeout" \notin Events(s.out) -> "stopped"
                 [] OTHER -> watch
  /\ n_timeout' = IF watch = "off" THEN 0
                  ELSE n_timeout + CountIn(s.out, <<"event", "ConnectionTimeout">>)
  /\ ever_paused' = (ever_paused \/ (watch # "off" /\ s.paused))
  /\ pr_state' = IF ~paused /\ s.paused THEN "paused"
                 ELSE IF pr_state = "paused"
                        THEN (IF ~s.paused THEN "resumed" ELSE "paused")
                        ELSE "idle"
  /\ pr_attempts' = IF ~paused /\ s.paused THEN 0
                    ELSE IF pr_state = "paused"
                           THEN pr_attempts + (s.generation - generation)
                           ELSE 0
  /\ pr_reconnecting' = IF ~paused /\ s.paused THEN 0
                        ELSE IF pr_state = "paused"
                               THEN pr_reconnecting + CountIn(s.out, <<"event", "Reconnecting">>)
                               ELSE 0
  /\ UNCHANGED <<config, since_first>>

\* ------------------------------------------------------------------ Init
\* The options explored: <<conn_timeout(), pause_on_connection_timeout(),
\* server_poll_timeout_enabled()>>.  Both timeouts set, with and without
\* pause-on-timeout, and neither set.
Configs == {<<ConnTimeoutCfg, FALSE, TRUE>>, <<ConnTimeoutCfg, TRUE, TRUE>>,
            <<0, FALSE, FALSE>>}

\* The state after construction, for options drawn from cfgs; w is "clean"
\* where the run records what disturbs the connection timeout, else "off".
Constructed(cfgs, w) ==
  /\ generation = 0
  /\ halt = FALSE
  /\ paused = FALSE
  /\ dont_restart_ = FALSE
  /\ conn_timer_pending = FALSE
  /\ client = NoClient
  /\ pre_resolve = "null"
  /\ asio_work = FALSE
  /\ server_poll_timer = Idle
  /\ restart_wait_timer = Idle
  /\ conn_timer = Idle
  /\ queue = <<>>
  /\ orphans = 0
  /\ unhandled = FALSE
  /\ \E c \in cfgs :
       /\ conn_timeout = c[1]
       /\ pause_on_connection_timeout = c[2]
       /\ server_poll_timeout_enabled = c[3]
  /\ out = <<>>
  /\ last = Op("construct", "call")
  /\ posted = <<>>
  /\ since_first = 0
  /\ watch = w
  /\ ever_paused = FALSE
  /\ n_timeout = 0
  /\ pr_state = "idle"
  /\ pr_attempts = 0
  /\ pr_reconnecting = 0

Init == Constructed(Configs, "off")

\* --------------------------------------------- calls on the connection thread
Start ==
  /\ ~unhandled
  /\ \E work \in BOOLEAN : Commit(start(St, work), Op("start", "call"), posted)

\* stop(), also through stop_on_signal() and the destructor
Stop ==
  /\ ~unhandled
  /\ Commit(stop(St), Op("stop", "call"), posted)

GracefulStop ==
  /\ ~unhandled
  /\ Commit(graceful_stop(St), Op("graceful_stop", "call"), posted)

Pause ==
  /\ ~unhandled
  /\ Commit(pause(St), Op("pause", "call"), posted)

Resume ==
  /\ ~unhandled
  /\ Commit(resume(St), Op("resume", "call"), posted)

Reconnect ==
  /\ ~unhandled
  /\ \E seconds \in -1 .. MaxSeconds :
       Commit(reconnect(St, seconds), Op("reconnect", "call"), posted)

DontRestart ==
  /\ ~unhandled
  /\ Commit(dont_restart(St), Op("dont_restart", "call"), posted)

\* ------------------------------------------------ calls from other threads
SeenHalt == {halt, FALSE}

ThreadSafeStop ==
  /\ ~unhandled
  /\ \E seen \in SeenHalt :
    LET s == thread_safe_stop(St, seen)
    IN Commit(s, Op("thread_safe_stop", "call"),
              IF s.queue # queue THEN Append(posted, Handler("graceful_stop", 0, FALSE, 0))
                                 ELSE posted)

ThreadSafePause ==
  /\ ~unhandled
  /\ \E seen \in SeenHalt :
    LET s == thread_safe_pause(St, seen)
    IN Commit(s, Op("thread_safe_pause", "call"),
              IF s.queue # queue THEN Append(posted, Handler("pause", 0, FALSE, 0))
                                 ELSE posted)

ThreadSafeResume ==
  /\ ~unhandled
  /\ \E seen \in SeenHalt :
    LET s == thread_safe_resume(St, seen)
    IN Commit(s, Op("thread_safe_resume", "call"),
              IF s.queue # queue THEN Append(posted, Handler("resume", 0, FALSE, 0))
                                 ELSE posted)

ThreadSafeReconnect ==
  /\ ~unhandled
  /\ \E seen \in SeenHalt, seconds \in -1 .. MaxSeconds :
    LET s == thread_safe_reconnect(St, seen, seconds)
    IN Commit(s, Op("thread_safe_reconnect", "call"),
              IF s.queue # queue THEN Append(posted, Handler("reconnect", 0, FALSE, seconds))
                                 ELSE posted)

\* ------------------------------------------- io_service: run the next handler
Popped == [St EXCEPT !.queue = Tail(@)]
Ran(h) ==
  IF h.e THEN Op("aborted", "timer")
         ELSE [Op(h.kind, "handler") EXCEPT !.stale = (h.gen # generation)]
RanPosted(h) == Op(h.kind, "handler")

RunPosted ==
  /\ queue # <<>>
  /\ Head(queue).kind \in PostKinds
  /\ Commit(run_posted(Popped, Head(queue)), RanPosted(Head(queue)),
            IF posted # <<>> THEN Tail(posted) ELSE posted)

RunRestartWait ==
  /\ queue # <<>>
  /\ Head(queue).kind = "restart_wait_callback"
  /\ Commit(restart_wait_callback(Popped, Head(queue).gen, Head(queue).e),
            Ran(Head(queue)), posted)

RunServerPoll ==
  /\ queue # <<>>
  /\ Head(queue).kind = "server_poll_callback"
  /\ Commit(server_poll_callback(Popped, Head(queue).gen, Head(queue).e),
            Ran(Head(queue)), posted)

RunConnTimer ==
  /\ queue # <<>>
  /\ Head(queue).kind = "conn_timer_callback"
  /\ Commit(conn_timer_callback(Popped, Head(queue).gen, Head(queue).e),
            Ran(Head(queue)), posted)

\* ------------------------------------------------------------ timers, time
\* An outstanding wait completes: its handler is queued without an error.
\* Expire takes the wait to be over whenever the timer is armed (any amount
\* of time may have passed); Due is the same step with time counted by Tick.
Expire(t) ==
    /\ St[t].armed
    /\ Commit([St EXCEPT ![t] = Idle,
                         !.queue = Append(@, Handler(Callback(t), St[t].gen, FALSE, 0))],
              Op("expire", "timer"), posted)

TimerExpire ==
  /\ ~unhandled
  /\ \E t \in Timers : Expire(t)

TimerDue ==
  /\ ~unhandled
  /\ \E t \in Timers : St[t].left = 0 /\ Expire(t)

Elapse(tm) == IF tm.armed THEN [tm EXCEPT !.left = @ - 1] ELSE tm

\* One time unit passes; due waits complete and queued handlers run first.
Tick ==
  /\ ~unhandled
  /\ queue = <<>>
  /\ \A t \in Timers : St[t].armed => St[t].left > 0
  /\ server_poll_timer' = Elapse(server_poll_timer)
  /\ restart_wait_timer' = Elapse(restart_wait_timer)
  /\ conn_timer' = Elapse(conn_timer)
  /\ since_first' = IF generation >= 1 THEN Min(since_first + 1, ConnTimeoutCfg + 1)
                                       ELSE since_first
  /\ out' = <<>>
  /\ last' = Op("tick", "timer")
  /\ pr_state' = IF pr_state = "resumed" THEN "idle" ELSE pr_state
  /\ pr_attempts' = IF pr_state = "paused" THEN pr_attempts ELSE 0
  /\ pr_reconnecting' = IF pr_state = "paused" THEN pr_reconnecting ELSE 0
  /\ UNCHANGED <<generation, halt, paused, dont_restart_, conn_timer_pending,
                 client, pre_resolve, asio_work, queue, orphans,
                 unhandled, config, posted, watch, ever_paused, n_timeout>>

\* ---------------------------------------------------------------- resolver
\* An outstanding resolution completes and notifies its callback: the one
\* pre_resolve points to, or one started by a PreResolve since replaced.
ResolveDone ==
  /\ ~unhandled
  /\ \E which \in {"current", "replaced"} :
       IF which = "current"
         THEN /\ pre_resolve = "pending"
              /\ Commit(pre_resolve_done([St EXCEPT !.pre_resolve = "done"]),
                        Op("pre_resolve_done", "resolver"), posted)
         ELSE /\ orphans > 0
              /\ Commit(pre_resolve_done([St EXCEPT !.orphans = @ - 1]),
                        Op("pre_resolve_done", "resolver"), posted)

\* ----------------------------------------------------------------- session
SessionFirstPacket ==
  /\ client.running
  /\ ~client.first_packet
  /\ Commit([St EXCEPT !.client.first_packet = TRUE],
            Op("first_packet", "timer"), posted)

SessionConnected ==
  /\ client.running
  /\ client.first_packet
  /\ ~client.connected
  /\ Commit(client_proto_connected([St EXCEPT !.client.connected = TRUE]),
            Op("client_proto_connected", "session"), posted)

\* The running session stops itself and reports its termination.
SessionTerminate ==
  /\ client.running
  /\ \E fatal \in Fatal, dynamic \in BOOLEAN :
       /\ dynamic => fatal = "AUTH_FAILED"
       /\ Commit(client_proto_terminate([St EXCEPT !.client.running = FALSE],
                                        fatal, dynamic),
                 [Op("client_proto_terminate", "session")
                    EXCEPT !.fatal = fatal, !.dynamic = dynamic],
                 posted)

Next ==
  \/ Start
  \/ Stop
  \/ GracefulStop
  \/ Pause
  \/ Resume
  \/ Reconnect
  \/ DontRestart
  \/ RunRestartWait
  \/ RunServerPoll
  \/ RunConnTimer
  \/ TimerExpire
  \/ ResolveDone
  \/ SessionFirstPacket
  \/ SessionConnected
  \/ SessionTerminate

\* Every call made on the connection thread itself.
Spec == Init /\ [][Next]_vars

\* The same with the thread-safe methods called from other threads and the
\* handlers they post.
NextPosted ==
  \/ Start
  \/ Stop
  \/ GracefulStop
  \/ Pause
  \/ Resume
  \/ Reconnect
  \/ DontRestart
  \/ ThreadSafeStop
  \/ ThreadSafePause
  \/ ThreadSafeResume
  \/ ThreadSafeReconnect
  \/ RunPosted
  \/ RunRestartWait
  \/ RunServerPoll
  \/ RunConnTimer
  \/ TimerExpire
  \/ ResolveDone
  \/ SessionFirstPacket
  \/ SessionConnected
  \/ SessionTerminate

InitPosted == Constructed({<<ConnTimeoutCfg, FALSE, TRUE>>}, "off")

SpecPosted == InitPosted /\ [][NextPosted]_vars

\* The same program with time counted: conn_timeout is set and
\* pause_on_connection_timeout() is false.
InitTimed == Constructed({<<ConnTimeoutCfg, FALSE, TRUE>>}, "clean")

NextTimed ==
  \/ Start
  \/ Stop
  \/ GracefulStop
  \/ Pause
  \/ Resume
  \/ Reconnect
  \/ DontRestart
  \/ RunRestartWait
  \/ RunServerPoll
  \/ RunConnTimer
  \/ TimerDue
  \/ Tick
  \/ ResolveDone
  \/ SessionFirstPacket
  \/ SessionConnected
  \/ SessionTerminate

SpecTimed == InitTimed /\ [][NextTimed]_vars

\* The program with no stop or pause called, for one set of options, with
\* the scheduling the io_service and the timers provide: a handler at the
\* front of the queue
\* is run, and an outstanding wait reaches its expiry unless it is cancelled
\* or replaced every time before it does.
InitFair == Constructed({<<ConnTimeoutCfg, FALSE, TRUE>>}, "off")

\* The steps with no call of stop(), graceful_stop(), pause() or resume()
NextFair ==
  \/ Start
  \/ Reconnect
  \/ DontRestart
  \/ RunRestartWait
  \/ RunServerPoll
  \/ RunConnTimer
  \/ TimerExpire
  \/ ResolveDone
  \/ SessionFirstPacket
  \/ SessionConnected
  \/ SessionTerminate

SpecFair ==
  /\ InitFair
  /\ [][NextFair]_vars
  /\ WF_vars(RunRestartWait)
  /\ WF_vars(RunServerPoll)
  /\ WF_vars(RunConnTimer)
  /\ SF_vars(TimerExpire)

\* ================================================================ claims
\* The controller's own fields, leaving out the handler queue and the
\* resolver's bookkeeping.
ctrl == <<generation, halt, paused, dont_restart_, conn_timer_pending, client,
          asio_work, server_poll_timer, restart_wait_timer, conn_timer>>
ctrl_but_flag == <<generation, halt, paused, conn_timer_pending, client,
                   asio_work, server_poll_timer, restart_wait_timer, conn_timer>>
Callbacks == TimerKinds \cup {"pre_resolve_done"}

\* C1: once stop() has executed (halt is true), no later step creates a
\* session or emits an event or a stat, halt stays true, and a timer or
\* resolver callback that runs afterwards changes no field of the controller.
C1_HaltIsFinal ==
  [][halt => /\ halt'
             /\ generation' = generation
             /\ client' = client
             /\ out' = <<>>
             /\ ctrl_but_flag' = ctrl_but_flag
             /\ last'.op \in Callbacks => ctrl' = ctrl]_vars

\* C1 witness: a restart-wait or connection-timeout callback of the current
\* generation, delivered without an error, has run on a halted controller
\* (it emitted nothing, so it is not the step that halted).
C1_Witness ==
  /\ halt
  /\ last.op \in {"restart_wait_callback", "conn_timer_callback"}
  /\ ~last.stale
  /\ out = <<>>

\* C2 (as claimed): paused and a running session exclude each other: while
\* paused and not halted, no session is started and not yet stopped.
C2_PausedExcludesSession == (paused /\ ~halt) => ~client.running

\* A step in which a callback left the controller as it was and emitted nothing
NoEffect == ctrl' = ctrl /\ out' = <<>>

\* C3 (as claimed): a timer callback of any of the three timers, delivered
\* without an error with a captured generation that is no longer the
\* controller's, has no effect.
C3_StaleTimerNoEffect ==
  [][(last'.op \in TimerKinds /\ last'.stale) => NoEffect]_vars

\* C3 (amended): a server-poll or restart-wait callback delivered without an
\* error with a stale generation has no effect; a connection-timeout
\* callback delivered without an error to a controller that is not halted
\* records the timeout stat whatever generation it captured.
C3_StaleFencedTimersNoEffect ==
  [][/\ (last'.op \in {"server_poll_callback", "restart_wait_callback"} /\ last'.stale)
          => NoEffect
     /\ (last'.op = "conn_timer_callback" /\ ~halt)
          => <<"stat", "CONNECTION_TIMEOUT">> \in {out'[i] : i \in DOMAIN out'}]_vars

\* C3 witness: a stale server-poll or restart-wait callback has run, without
\* an error, on a controller that is not halted.
C3_Witness ==
  /\ last.op \in {"server_poll_callback", "restart_wait_callback"}
  /\ last.stale
  /\ ~halt

C5_DontRestartOverrides ==
  [][/\ dont_restart_ => dont_restart_'
     /\ (last'.op = "client_proto_terminate" /\ ~halt /\ dont_restart_)
          => (halt' /\ ~restart_wait_timer'.armed /\ ~unhandled')
     /\ (~dont_restart_ /\ dont_restart_')
          => (ctrl_but_flag' = ctrl_but_flag /\ queue' = queue /\ out' = <<>>)]_vars

\* C5 witness: with dont_restart_ set, a CLIENT_RESTART termination halted
\* the controller.
C5_Witness ==
  /\ last.op = "client_proto_terminate"
  /\ last.fatal = "CLIENT_RESTART"
  /\ dont_restart_
  /\ halt
  /\ <<"event", "Disconnected">> \in {out[i] : i \in DOMAIN out}

\* The events that surface a terminal classification
ClassEvents(fatal) ==
  CASE fatal = "AUTH_FAILED" -> {"DynamicChallenge", "AuthFailed"}
    [] fatal = "TUN_SETUP_FAILED" -> {"TunSetupFailed"}
    [] fatal = "TUN_IFACE_CREATE" -> {"TunIfaceCreate"}
    [] fatal = "TUN_IFACE_DISABLED" -> {"TunIfaceDisabled"}
    [] fatal = "PROXY_ERROR" -> {"ProxyError"}
    [] fatal = "PROXY_NEED_CREDS" -> {"ProxyNeedCreds"}
    [] fatal = "CERT_VERIFY_FAIL" -> {"CertVerifyFail"}
    [] fatal = "TLS_VERSION_MIN" -> {"TLSVersionMinFail"}
    [] fatal = "CLIENT_HALT" -> {"ClientHalt"}
    [] fatal = "INACTIVE_TIMEOUT" -> {"InactiveTimeout"}
    [] OTHER -> {}

\* In seq: exactly one event of a kind in kinds, before the Disconnected
\* event, and no other terminal event.
SurfacedOnce(seq, kinds) ==
  \E i \in DOMAIN seq :
    /\ seq[i][1] = "event" /\ seq[i][2] \in kinds
    /\ \A j \in DOMAIN seq :
         (seq[j][1] = "event" /\ seq[j][2] \in TerminalEvents) => j = i
    /\ \E d \in DOMAIN seq : seq[d] = <<"event", "Disconnected">> /\ i < d

\* C6 (as claimed): whenever a termination with a terminal classification
\* halts the controller, exactly one event of the kind of that
\* classification is emitted, before Disconnected.
C6_TerminalSurfacedOnce ==
  [][(last'.op = "client_proto_terminate" /\ last'.fatal \in Terminal /\ ~halt /\ halt')
       => SurfacedOnce(out', ClassEvents(last'.fatal))]_vars

\* C6 (amended): the same for terminations handled with dont_restart_ unset;
\* and a terminal event is emitted only by a step that halts the controller,
\* so never a second time.
C6_TerminalSurfacedOnceUnlessSticky ==
  [][/\ (/\ last'.op = "client_proto_terminate"
         /\ last'.fatal \in Terminal
         /\ ~dont_restart_ /\ ~halt /\ halt')
          => SurfacedOnce(out', ClassEvents(last'.fatal))
     /\ (Events(out') \cap TerminalEvents # {}) => (~halt /\ halt')]_vars

\* C6 witness: a CERT_VERIFY_FAIL termination, handled with dont_restart_
\* unset, emitted CertVerifyFail and then Disconnected and halted.
C6_Witness ==
  /\ last.op = "client_proto_terminate"
  /\ last.fatal = "CERT_VERIFY_FAIL"
  /\ ~dont_restart_
  /\ halt
  /\ SurfacedOnce(out, {"CertVerifyFail"})

\* C7 (as claimed), with conn_timeout set and pause-on-timeout off: once
\* more than conn_timeout has passed since the first attempt with no session
\* having connected (and nothing but the timeout having halted the
\* controller), exactly one ConnectionTimeout has been emitted and the
\* controller is halted.
C7_TimeoutFromFirstAttempt ==
  (since_first > conn_timeout /\ watch = "clean") => (halt /\ n_timeout = 1)

\* C7 (amended): the same provided pause() has not taken effect since the
\* first attempt.
C7_TimeoutUnlessPaused ==
  (since_first > conn_timeout /\ watch = "clean" /\ ~ever_paused)
    => (halt /\ n_timeout = 1)

\* C7 witness: the timeout halted the controller during the second attempt,
\* with no pause and no connected before it.
C7_Witness ==
  /\ since_first > conn_timeout
  /\ watch = "clean"
  /\ ~ever_paused
  /\ generation = 2
  /\ halt
  /\ n_timeout = 1

Calls(seq) == {seq[i] : i \in DOMAIN seq}

\* C8: a step rotates the remote list only by starting a new attempt, at
\* most once, and exactly when the attempt is not the first and the session
\* it replaces never reached the connected state.
C8_RotationOnlyAfterUnconnected ==
  [][/\ <<"options", "next">> \in Calls(out') => generation' = generation + 1
     /\ CountIn(out', <<"options", "next">>) <= 1
     /\ generation' = generation + 1
          => (<<"options", "next">> \in Calls(out')
                <=> (generation >= 1 /\ ~client.connected))]_vars

\* C8 witness: the restart-wait callback started the second attempt without
\* rotating (the session it replaced had connected).
C8_Witness ==
  /\ generation = 2
  /\ last.op = "restart_wait_callback"
  /\ <<"event", "Reconnecting">> \in Calls(out)
  /\ <<"options", "next">> \notin Calls(out)

\* C9 (as claimed): when resume() takes effect after pause(), exactly one
\* attempt has been started and at most one Reconnecting emitted since that
\* pause().
C9_OneAttemptPerPauseResume ==
  pr_state = "resumed" => (pr_attempts = 1 /\ pr_reconnecting <= 1)

IsPosted(h) == h.kind \in PostKinds

\* C10: the posted handlers wait in the queue in the order they were posted,
\* none dropped and none merged; the one run is the oldest; a posted stop
\* leaves the controller halted; and a posted handler run on a halted
\* controller changes nothing and emits nothing.
C10_PostedRunInOrder ==
  /\ [](posted = SelectSeq(queue, IsPosted))
  /\ [][last'.op \in PostKinds
          => /\ queue # <<>> /\ posted # <<>>
             /\ Head(queue) = Head(posted)
             /\ posted' = Tail(posted)
             /\ last'.op = "graceful_stop" => halt'
             /\ halt => (ctrl' = ctrl /\ out' = <<>>)]_vars

\* C10 witness: a posted resume ran on a paused controller that was already
\* halted, and did nothing.
C10_Witness ==
  /\ last.op = "resume"
  /\ halt
  /\ paused
  /\ out = <<>>

\* C11 (as claimed): the handler thread_safe_stop() posts, run on a
\* controller that is not halted, does what stop() does: the same fields
\* afterwards and the same output, so the session is stopped without being
\* told to send an explicit exit notify.
C11_PostedStopIsStop ==
  [][(last'.op = "graceful_stop" /\ ~halt)
       => /\ halt'
          /\ ctrl' = <<stop(Popped).generation, stop(Popped).halt, stop(Popped).paused,
                       stop(Popped).dont_restart_, stop(Popped).conn_timer_pending,
                       stop(Popped).client, stop(Popped).asio_work,
                       stop(Popped).server_poll_timer, stop(Popped).restart_wait_timer,
                       stop(Popped).conn_timer>>
          /\ out' = stop(Popped).out
          /\ <<"client", "send_explicit_exit_notify">> \notin Calls(out')]_vars

\* C12: halt never goes back to false; a step emits Disconnected exactly
\* when it takes halt from false to true, and then once; and a step taken
\* on a halted controller (a later stop, graceful_stop, timeout or
\* termination) emits nothing and changes no field but dont_restart_.
C12_HaltMonotonicStopIdempotent ==
  [][/\ halt => halt'
     /\ CountIn(out', <<"event", "Disconnected">>) = (IF ~halt /\ halt' THEN 1 ELSE 0)
     /\ halt => (out' = <<>> /\ ctrl_but_flag' = ctrl_but_flag)]_vars

\* C12 witness: a posted graceful_stop has run on a controller already
\* halted, with a session constructed earlier, and emitted nothing.
C12_Witness ==
  /\ halt
  /\ last.op = "graceful_stop"
  /\ ~client.null
  /\ out = <<>>

\* C13: the controller holds one session at a time, and a step starts a
\* session at most once; when it starts one while the session held before
\* the step is still running, it has stopped that session first.  So the
\* sessions started and not yet stopped are never more than one.
C13_OneLiveSession ==
  [][\A i \in DOMAIN out' :
       out'[i] = <<"client", "start">>
         => /\ CountIn(out', <<"client", "start">>) = 1
            /\ generation' = generation + 1
            /\ client'.running
            /\ client.running
                 => \E j \in 1 .. (i - 1) : out'[j] = <<"client", "stop">>]_vars

\* C13 witness: a server-poll callback of the current generation replaced a
\* running session, stopping it and then starting the new one.
C13_Witness ==
  /\ last.op = "server_poll_callback"
  /\ ~last.stale
  /\ generation = 2
  /\ client.running
  /\ <<"client", "stop">> \in Calls(out)
  /\ <<"client", "start">> \in Calls(out)

\* A session has terminated and the controller, neither halted nor paused,
\* is waiting to start the next attempt.
AwaitingRestart ==
  /\ ~halt /\ ~paused /\ ~unhandled
  /\ ~client.null /\ ~client.running

\* A restart-wait for the current generation is outstanding, or its handler
\* is queued without an error.
RestartPending ==
  \/ restart_wait_timer.armed /\ restart_wait_timer.gen = generation
  \/ \E i \in DOMAIN queue :
       /\ queue[i].kind = "restart_wait_callback"
       /\ ~queue[i].e
       /\ queue[i].gen = generation

\* C14: a termination reporting UNDEF, handled with dont_restart_ unset on a
\* controller that is not halted, arms the restart wait for RestartDelay at
\* the current generation; while the controller waits, neither halted nor
\* paused, the restart stays pending (terminations, reconnect() and a
\* server-poll callback do not lose it); no step starts more than one
\* attempt, and a restart-wait or server-poll callback starts one only for
\* the generation it captured; and the wait ends with a new attempt, unless
\* the controller is halted or paused first.
C14_OneRestartNeverLost ==
  /\ [][(last'.op = "client_proto_terminate" /\ last'.fatal = "UNDEF"
             /\ ~halt /\ ~dont_restart_)
          => restart_wait_timer' =
               [armed |-> TRUE, gen |-> generation', left |-> RestartDelay]]_vars
  /\ [](AwaitingRestart => RestartPending)
  /\ [][/\ generation' \in {generation, generation + 1}
        /\ (last'.op \in {"restart_wait_callback", "server_poll_callback"}
              /\ generation' # generation) => ~last'.stale]_vars
  /\ \A g \in 1 .. (MaxGen - 1) :
       (AwaitingRestart /\ generation = g) ~> (generation > g \/ halt \/ paused)

\* C14 witness: after a termination reporting UNDEF, the restart-wait
\* callback has started the second attempt.
C14_Witness ==
  /\ last.op = "restart_wait_callback"
  /\ ~last.stale
  /\ generation = 2
  /\ client.running
  /\ ~halt /\ ~paused
  /\ <<"client", "send_explicit_exit_notify">> \in Calls(out)

\* C15: a termination reporting AUTH_FAILED, handled with dont_restart_
\* unset on a controller that is not halted, halts the controller; when the
\* reason is a dynamic challenge it emits DynamicChallenge once, no
\* AuthFailed and no AUTH_FAILED stat; otherwise it emits AuthFailed once
\* and the AUTH_FAILED stat once, and no DynamicChallenge.
C15_AuthFailedDynamicOrNot ==
  [][(/\ last'.op = "client_proto_terminate" /\ last'.fatal = "AUTH_FAILED"
      /\ ~halt /\ ~dont_restart_)
       => /\ halt'
          /\ CountIn(out', <<"event", "DynamicChallenge">>) = (IF last'.dynamic THEN 1 ELSE 0)
          /\ CountIn(out', <<"event", "AuthFailed">>) = (IF last'.dynamic THEN 0 ELSE 1)
          /\ CountIn(out', <<"stat", "AUTH_FAILED">>) = (IF last'.dynamic THEN 0 ELSE 1)]_vars

\* C15 witness: a termination reporting AUTH_FAILED with a dynamic challenge
\* was handled with dont_restart_ unset: DynamicChallenge, then Disconnected.
C15_Witness ==
  /\ last.op = "client_proto_terminate"
  /\ last.fatal = "AUTH_FAILED"
  /\ last.dynamic
  /\ ~dont_restart_
  /\ halt
  /\ Events(out) = {"DynamicChallenge", "Disconnected"}

\* C16 (as claimed): once the session's connected notification has been
\* handled (the session held has connected and conn_timer_pending is
\* clear, no later new_client having armed the timer again), a
\* connection-timeout callback does nothing, even one delivered without an
\* error because it was queued before the cancel.
C16_ConnectedDisarmsTimeout ==
  [][(last'.op = "conn_timer_callback" /\ client.connected /\ ~conn_timer_pending)
       => NoEffect]_vars

\* C17 (as claimed): with pause-on-connection-timeout configured, a
\* connection-timeout callback run without an error on a controller that is
\* not halted records the timeout stat and leaves the controller paused and
\* not halted, with no ConnectionTimeout and no Disconnected event, also
\* when the controller is already paused; without it, the callback halts.
C17_TimeoutPausesWhenConfigured ==
  [][(last'.op = "conn_timer_callback" /\ ~halt)
       => /\ CountIn(out', <<"stat", "CONNECTION_TIMEOUT">>) = 1
          /\ IF pause_on_connection_timeout
               THEN /\ paused' /\ ~halt'
                    /\ Events(out') \cap {"ConnectionTimeout", "Disconnected"} = {}
               ELSE halt']_vars

\* C18 (as claimed): the keep-alive asio_work is held exactly while the
\* controller is paused and not halted.
C18_WorkHeldIffPaused == asio_work <=> (paused /\ ~halt)

\* C19: a server-poll callback run without an error finds a session object
\* (it never calls through a null client); it starts a new attempt only
\* when its generation is the current one, the controller is not halted
\* and the session held has not received its first packet; otherwise, so
\* whenever the session has received its first packet, it changes nothing
\* and emits nothing.
C19_ServerPollReplacesOnlyUnanswered ==
  [][last'.op = "server_poll_callback"
       => /\ ~client.null
          /\ ~unhandled'
          /\ IF ~last'.stale /\ ~halt /\ ~client.first_packet
               THEN generation' = generation + 1
               ELSE NoEffect]_vars

\* C19 witness: a server-poll callback of the current generation ran while
\* the running session had received its first packet, and left it alone.
C19_Witness ==
  /\ last.op = "server_poll_callback"
  /\ ~last.stale
  /\ ~halt
  /\ client.running
  /\ client.first_packet
  /\ out = <<>>

\* C20 (as claimed): start() begins work at most once: a step emits Resolve
\* (starts a resolution) only when no resolution was started before, and a
\* resolver completion starts an attempt only when it is the first attempt.
C20_StartBeginsWorkOnce ==
  [][/\ <<"event", "Resolve">> \in Calls(out') => (pre_resolve = "null" /\ orphans = 0)
     /\ (last'.op = "pre_resolve_done" /\ generation' # generation)
          => generation = 0]_vars

====
